---- MODULE Spec2Model ----
(***************************************************************************)
(* The two Piper TTS HTTP workers of the repository:                       *)
(*   workers/tts-server/server.py  (several voices, md5 cache key)         *)
(*   workers/piper-tts/server.py   (one voice loaded at start, sha256 key) *)
(* Each /synthesize request runs in its own Flask thread; the threads      *)
(* share the dictionary loaded_models and the files of CACHE_DIR.          *)
(***************************************************************************)
EXTENDS Integers, Sequences, FiniteSets, TLC

\* Number of /synthesize requests (one Flask thread each) of a run.
NumRequests == 2

ReqIds == 1..NumRequests

Servers == {"tts-server", "piper-tts"}

(***************************************************************************)
(* JSON values of a request body.  A real is kept in tenths (15 is 1.5).   *)
(***************************************************************************)
Absent == [kind |-> "absent", s |-> "", n |-> 0]
JStr(str) == [kind |-> "str", s |-> str, n |-> 0]
JInt(i) == [kind |-> "int", s |-> "", n |-> i]
JReal(tenths) == [kind |-> "real", s |-> "", n |-> tenths]
JBool(b) == [kind |-> "bool", s |-> "", n |-> IF b THEN 1 ELSE 0]

\* dict.get(key, default)
Get(v, default) == IF v.kind = "absent" THEN default ELSE v

\* Python truthiness of data.get('text'): None and '' are falsy.
Truthy(v) == v.kind = "str" /\ v.s # ""

DefaultModel == "en_US-lessac-medium"

\* float(x) raises ValueError on a string that is no number.
FloatRaises(v) == v.kind \notin {"int", "real"}

\* Mutant of PyFloat: the value is used as it came, without float().
PyFloatOmitted(v) == v

\* float(x): the float of an int or of a float.
PyFloat(v) == JReal(IF v.kind = "int" THEN 10 * v.n ELSE v.n)

Digit(d) ==
    CASE d = 0 -> "0" [] d = 1 -> "1" [] d = 2 -> "2" [] d = 3 -> "3"
      [] d = 4 -> "4" [] d = 5 -> "5" [] d = 6 -> "6" [] d = 7 -> "7"
      [] d = 8 -> "8" [] OTHER -> "9"

RECURSIVE NatStr(_)
NatStr(k) == IF k < 10 THEN Digit(k) ELSE NatStr(k \div 10) \o Digit(k % 10)

Abs(x) == IF x < 0 THEN -x ELSE x

\* str(x) of a number: of the float 1.0 "1.0", of 1.5 "1.5", of -1.0 "-1.0"; of the
\* int 1 "1".
PyStr(v) ==
    (IF v.n < 0 THEN "-" ELSE "") \o
    (IF v.kind = "int" THEN NatStr(Abs(v.n))
     ELSE NatStr(Abs(v.n) \div 10) \o "." \o Digit(Abs(v.n) % 10))

\* The digests are taken to be injective: a digest is its algorithm and its input.
Md5(str) == <<"md5", str>>
Sha256(str) == <<"sha256", str>>

\* tts-server: f"{text}:{model_name}:{speed}"
TtsCanonical(text, model_name, speed) ==
    text \o ":" \o model_name \o ":" \o PyStr(speed)

\* piper-tts: the text alone
PiperCanonical(text, model_name, speed) == text

Canonical(srv, text, model_name, speed) ==
    IF srv = "tts-server" THEN TtsCanonical(text, model_name, speed)
    ELSE PiperCanonical(text, model_name, speed)

cache_key(srv, text, model_name, speed) ==
    IF srv = "tts-server" THEN Md5(Canonical(srv, text, model_name, speed))
    ELSE Sha256(Canonical(srv, text, model_name, speed))

(***************************************************************************)
(* Audio bytes.  A WAV container holds a header (riff, rate, frames) and    *)
(* the samples; `of` is the (text, voice, speed) it was rendered from and   *)
(* `take` tells apart two renderings of the same input (Piper samples       *)
(* noise, so two runs need not give the same bytes).                        *)
(***************************************************************************)
NoInput == <<"", "", JReal(0)>>

\* b'' : what a file opened with 'wb' holds before the write reaches it.
EmptyBytes == [len |-> 0, riff |-> FALSE, rate |-> 0, frames |-> 0, of |-> NoInput, take |-> 0]

\* A well-formed 16-bit mono WAV of the voice's sample rate: the wave module
\* writes the header, so what wav_buffer holds after the with block is a WAV.
WavBytes(input, take) ==
    [len |-> 44 + 2 * (22050 + 11025 * take), riff |-> TRUE, rate |-> 22050,
     frames |-> 22050 + 11025 * take, of |-> input, take |-> take]

\* What one call of the backend may do: return one of two renderings, or raise.
BackendOutcomes == {"take0", "take1", "raise"}

BackendBytes(outcome, input) ==
    IF outcome = "take0" THEN WavBytes(input, 0) ELSE WavBytes(input, 1)

\* wave.open(...) raises wave.Error / EOFError when the header cannot be read.
ProbeRaises(bytes) == ~bytes.riff

\* round(frames / float(rate), 2), in hundredths of a second.
duration_sec(bytes) == (200 * bytes.frames + bytes.rate) \div (2 * bytes.rate)

\* The .onnx files of MODELS_DIR.
ModelAssets == {DefaultModel, "c"}

(***************************************************************************)
(* Request bodies.                                                         *)
(***************************************************************************)
Body(text, model, speed, use_cache) ==
    [text |-> text, model |-> model, speed |-> speed, use_cache |-> use_cache]

\* The bodies the concurrent runs draw from.  "b:c" names no model file; in
\* tts-server the body that asks for it has the cache key of the body before it.
RequestBodies ==
    { Body(JStr("hi"), Absent, Absent, Absent),
      Body(JStr("hi"), Absent, Absent, JBool(FALSE)),
      Body(JStr("a:b"), JStr("c"), Absent, Absent),
      Body(JStr("a"), JStr("b:c"), Absent, Absent),
      Body(JStr("hi"), Absent, JInt(0), Absent),
      Body(JStr("yo"), Absent, JInt(-1), JBool(TRUE)),
      Body(JStr(""), Absent, Absent, Absent),
      Body(Absent, Absent, JStr("fast"), Absent) }

\* The bodies the cache-key runs draw from.
KeyBodies ==
    { Body(t, m, s, Absent) :
        t \in {JStr("a"), JStr("a:b")},
        m \in {Absent, JStr(DefaultModel), JStr("c"), JStr("b:c")},
        s \in {Absent, JInt(1), JReal(10), JReal(15), JInt(2)} }

VARIABLES
    server,         \* which of the two workers runs
    loaded_models,  \* dict model_name -> PiperVoice (tts-server); the global voice (piper-tts)
    cache,          \* CACHE_DIR: cache_key -> bytes of <cache_key>.wav
    pc,             \* pc[i]: where request i's handler stands
    body,           \* body[i]: request.json
    loc,            \* loc[i]: the handler's local variables
    resp,           \* resp[i]: the response sent
    hist            \* hist[i]: what request i has done so far (history)

vars == <<server, loaded_models, cache, pc, body, loc, resp, hist>>

NoVoice == [model |-> "", by |-> 0]

\* The PiperVoice object that request `by` got from PiperVoice.load (by = 0: at start).
Voice(model_name, by) == [model |-> model_name, by |-> by]

NoLocals ==
    [text |-> "", model_name |-> "", speed |-> JReal(0), use_cache |-> FALSE,
     cache_key |-> <<"", "">>, voice |-> NoVoice, audio_data |-> EmptyBytes]

NoResponse ==
    [status |-> 0, error |-> "", cached |-> FALSE, audio |-> EmptyBytes,
     duration_sec |-> 0, model |-> ""]

NoHistory ==
    [after |-> {}, looked_up |-> FALSE, resolved |-> FALSE, loaded |-> FALSE,
     invoked |-> FALSE, wrote |-> FALSE]

NoBody == Body(Absent, Absent, Absent, Absent)

Init ==
    /\ server \in Servers
    /\ loaded_models =
         IF server = "tts-server" THEN <<>>
         ELSE [m \in {DefaultModel} |-> Voice(DefaultModel, 0)]
    /\ cache = <<>>
    /\ pc = [i \in ReqIds |-> "idle"]
    /\ body = [i \in ReqIds |-> NoBody]
    /\ loc = [i \in ReqIds |-> NoLocals]
    /\ resp = [i \in ReqIds |-> NoResponse]
    /\ hist = [i \in ReqIds |-> NoHistory]

(***************************************************************************)
(* Helpers of the handler synthesize().                                    *)
(***************************************************************************)
\* The handler ends with an error response.
Fail(i, status, error) ==
    /\ pc' = [pc EXCEPT ![i] = "done"]
    /\ resp' = [resp EXCEPT ![i] = [NoResponse EXCEPT !.status = status, !.error = error]]

\* return jsonify({'audio': ..., 'duration_sec': ..., 'model': ..., 'cached': ...})
Respond(i, audio, duration, cached) ==
    /\ pc' = [pc EXCEPT ![i] = "done"]
    /\ resp' = [resp EXCEPT ![i] =
                  [status |-> 200, error |-> "", cached |-> cached, audio |-> audio,
                   duration_sec |-> duration,
                   model |-> IF server = "tts-server" THEN loc[i].model_name ELSE ""]]

\* speed = float(data.get('speed', 1.0)) raises on a speed that is no number
\* (tts-server only: piper-tts does not read the speed).
ParseRaises(srv, b) == srv = "tts-server" /\ FloatRaises(Get(b.speed, JReal(10)))

\* if not text
TextMissing(b) == ~Truthy(b.text)

\* use_cache = data.get('use_cache', True)
UseCache(b) == Get(b.use_cache, JBool(TRUE)).n = 1

\* The locals after the handler has read request.json.
Parsed(srv, b) ==
    [NoLocals EXCEPT
       !.text = b.text.s,
       !.model_name = IF srv = "tts-server" THEN Get(b.model, JStr(DefaultModel)).s
                      ELSE DefaultModel,
       !.speed = IF srv = "tts-server" THEN PyFloat(Get(b.speed, JReal(10))) ELSE JReal(10),
       !.use_cache = UseCache(b)]

\* Mutant of CacheHit: the existence check is dropped, nothing is ever a hit.
CacheHitNever(use_cache, key, files) == FALSE

\* Mutant of CacheHit: use_cache is not consulted.
CacheHitAlways(use_cache, key, files) == key \in DOMAIN files

\* if use_cache and cache_file.exists()
CacheHit(use_cache, key, files) == use_cache /\ key \in DOMAIN files

\* Mutant of PutFile: writing one file loses the other files of the directory.
PutFileOnly(files, key, bytes) == [k \in {key} |-> bytes]

\* open(cache_file, 'wb') / f.write(audio_data): the file's new content.
PutFile(files, key, bytes) ==
    [k \in DOMAIN files \cup {key} |-> IF k = key THEN bytes ELSE files[k]]

\* Mutant of IsLoaded: the lookup in loaded_models always misses.
IsLoadedNever(models, model_name) == FALSE

\* if model_name in loaded_models
IsLoaded(models, model_name) == model_name \in DOMAIN models

\* model_path.exists()
AssetExists(model_name) == model_name \in ModelAssets

\* loaded_models[model_name] = voice
Register(models, model_name, voice) ==
    [m \in DOMAIN models \cup {model_name} |-> IF m = model_name THEN voice ELSE models[m]]

\* health(): 'loaded_models': len(loaded_models)
health == Cardinality(DOMAIN loaded_models)

\* The input the backend renders.
BackendInput(i) == <<loc[i].text, loc[i].voice.model, loc[i].speed>>

(***************************************************************************)
(* The handler synthesize(), one action per step between two accesses to   *)
(* shared state.  Requests are numbered in the order they arrive.          *)
(***************************************************************************)
\* data = request.json ... if not text: return 400
Receive(i, b) ==
    /\ pc[i] = "idle"
    /\ \A j \in ReqIds : j < i => pc[j] # "idle"
    /\ body' = [body EXCEPT ![i] = b]
    /\ hist' = [hist EXCEPT ![i].after = {j \in ReqIds : pc[j] = "done"}]
    /\ IF ParseRaises(server, b)
         THEN Fail(i, 500, "ValueError") /\ UNCHANGED loc
         ELSE IF TextMissing(b)
           THEN Fail(i, 400, "Missing text parameter") /\ UNCHANGED loc
           ELSE /\ pc' = [pc EXCEPT ![i] = "lookup"]
                /\ loc' = [loc EXCEPT ![i] = Parsed(server, b)]
                /\ UNCHANGED resp
    /\ UNCHANGED <<server, loaded_models, cache>>

\* cache_key = ...; cache_file = ...; if use_cache and cache_file.exists():
Lookup(i) ==
    /\ pc[i] = "lookup"
    /\ LET key == cache_key(server, loc[i].text, loc[i].model_name, loc[i].speed)
       IN /\ loc' = [loc EXCEPT ![i].cache_key = key]
          /\ hist' = [hist EXCEPT ![i].looked_up = loc[i].use_cache]
          /\ pc' = [pc EXCEPT ![i] =
                      IF CacheHit(loc[i].use_cache, key, cache) THEN "hit_read"
                      ELSE IF server = "tts-server" THEN "load_model"
                      ELSE "synth"]
    /\ UNCHANGED <<server, loaded_models, cache, body, resp>>

\* Mutant of HitRead: the reader waits until the file it found holds complete bytes.
HitReadWaits(i) ==
    /\ pc[i] = "hit_read"
    /\ cache[loc[i].cache_key].riff
    /\ loc' = [loc EXCEPT ![i].audio_data = cache[loc[i].cache_key]]
    /\ pc' = [pc EXCEPT ![i] = "hit_probe"]
    /\ UNCHANGED <<server, loaded_models, cache, body, resp, hist>>

\* Mutant of HitRead: the hit path gets the voice from the table before it reads.
HitReadLoads(i) ==
    /\ pc[i] = "hit_read"
    /\ loaded_models' = Register(loaded_models, loc[i].model_name, Voice(loc[i].model_name, i))
    /\ loc' = [loc EXCEPT ![i].audio_data = cache[loc[i].cache_key]]
    /\ pc' = [pc EXCEPT ![i] = "hit_probe"]
    /\ UNCHANGED <<server, cache, body, resp, hist>>

\* with open(cache_file, 'rb') as f: audio_data = f.read()
HitRead(i) ==
    /\ pc[i] = "hit_read"
    /\ loc' = [loc EXCEPT ![i].audio_data = cache[loc[i].cache_key]]
    /\ pc' = [pc EXCEPT ![i] = "hit_probe"]
    /\ UNCHANGED <<server, loaded_models, cache, body, resp, hist>>

\* with wave.open(cache_file, 'rb') as wav: ...; return jsonify({... 'cached': True})
\* The file is read a second time; an exception here is not caught (500).
HitProbe(i) ==
    /\ pc[i] = "hit_probe"
    /\ LET onDisk == cache[loc[i].cache_key]
       IN IF ProbeRaises(onDisk)
            THEN Fail(i, 500, "wave.Error")
            ELSE Respond(i, loc[i].audio_data, duration_sec(onDisk), TRUE)
    /\ UNCHANGED <<server, loaded_models, cache, body, loc, hist>>

\* load_model: the lookup in loaded_models and the check of the model file.
LoadModelCheck(i) ==
    /\ pc[i] = "load_model"
    /\ hist' = [hist EXCEPT ![i].resolved = TRUE]
    /\ IF IsLoaded(loaded_models, loc[i].model_name)
         THEN /\ loc' = [loc EXCEPT ![i].voice = loaded_models[loc[i].model_name]]
              /\ pc' = [pc EXCEPT ![i] = "synth"]
              /\ UNCHANGED resp
         ELSE IF ~AssetExists(loc[i].model_name)
           THEN Fail(i, 500, "FileNotFoundError") /\ UNCHANGED loc
           ELSE /\ pc' = [pc EXCEPT ![i] = "loading"]
                /\ UNCHANGED <<loc, resp>>
    /\ UNCHANGED <<server, loaded_models, cache, body>>

\* Mutant of PiperVoiceLoad: one lock for the whole backend, a voice is loaded only
\* while no request is synthesizing.
PiperVoiceLoadLocked(i) ==
    /\ pc[i] = "loading"
    /\ \A j \in ReqIds : pc[j] # "synthesizing"
    /\ LET voice == Voice(loc[i].model_name, i)
       IN /\ loaded_models' = Register(loaded_models, loc[i].model_name, voice)
          /\ loc' = [loc EXCEPT ![i].voice = voice]
    /\ hist' = [hist EXCEPT ![i].loaded = TRUE]
    /\ pc' = [pc EXCEPT ![i] = "synth"]
    /\ UNCHANGED <<server, cache, body, resp>>

\* voice = PiperVoice.load(str(model_path)); loaded_models[model_name] = voice
PiperVoiceLoad(i) ==
    /\ pc[i] = "loading"
    /\ LET voice == Voice(loc[i].model_name, i)
       IN /\ loaded_models' = Register(loaded_models, loc[i].model_name, voice)
          /\ loc' = [loc EXCEPT ![i].voice = voice]
    /\ hist' = [hist EXCEPT ![i].loaded = TRUE]
    /\ pc' = [pc EXCEPT ![i] = "synth"]
    /\ UNCHANGED <<server, cache, body, resp>>

\* length_scale=1.0/speed raises ZeroDivisionError
ScaleRaises(srv, speed) == srv = "tts-server" /\ speed.n = 0

\* wav_buffer = io.BytesIO(); voice.synthesize(text, wav_file, length_scale=1.0/speed)
\* piper-tts: voice.synthesize_wav(text, wav_file) with the voice loaded at start.
SynthBegin(i) ==
    /\ pc[i] = "synth"
    /\ IF ScaleRaises(server, loc[i].speed)
         THEN Fail(i, 500, "ZeroDivisionError") /\ UNCHANGED <<loc, hist>>
         ELSE /\ pc' = [pc EXCEPT ![i] = "synthesizing"]
              /\ loc' = [loc EXCEPT ![i].voice =
                           IF server = "tts-server" THEN @ ELSE loaded_models[DefaultModel]]
              /\ hist' = [hist EXCEPT ![i].invoked = TRUE]
              /\ UNCHANGED resp
    /\ UNCHANGED <<server, loaded_models, cache, body>>

\* The probe of freshly synthesized bytes and the response of a miss:
\* with wave.open(io.BytesIO(audio_data), 'rb') as wav: ...; return jsonify({... 'cached': False})
ProbeAndRespond(i, bytes) ==
    IF ProbeRaises(bytes)
      THEN Fail(i, 500, "wave.Error")
      ELSE Respond(i, bytes, duration_sec(bytes), FALSE)

\* What follows the save, or its omission when use_cache is false: the probe and
\* the response (tts-server), the response (piper-tts, which probed before).
AfterSave(i, bytes) ==
    IF server = "tts-server"
      THEN ProbeAndRespond(i, bytes)
      ELSE Respond(i, bytes, duration_sec(bytes), FALSE)

\* Mutant of SynthEnd: the backend renders straight into the cache file, so a
\* synthesis that raises leaves the file it had opened.
SynthEndIntoFile(i, outcome) ==
    /\ pc[i] = "synthesizing"
    /\ LET bytes == BackendBytes(outcome, BackendInput(i))
       IN IF outcome = "raise"
            THEN /\ Fail(i, 500, "SynthesisError")
                 /\ cache' = IF loc[i].use_cache
                               THEN PutFile(cache, loc[i].cache_key, EmptyBytes)
                               ELSE cache
                 /\ UNCHANGED loc
            ELSE /\ loc' = [loc EXCEPT ![i].audio_data = bytes]
                 /\ IF server = "piper-tts" /\ ProbeRaises(bytes)
                      THEN Fail(i, 500, "wave.Error")
                      ELSE IF loc[i].use_cache
                        THEN pc' = [pc EXCEPT ![i] = "save"] /\ UNCHANGED resp
                        ELSE AfterSave(i, bytes)
                 /\ UNCHANGED cache
    /\ UNCHANGED <<server, loaded_models, body, hist>>

\* The backend returns or raises; audio_data = wav_buffer.getvalue(); piper-tts
\* probes the duration here, before it saves; then: if use_cache: ...
SynthEnd(i, outcome) ==
    /\ pc[i] = "synthesizing"
    /\ LET bytes == BackendBytes(outcome, BackendInput(i))
       IN IF outcome = "raise"
            THEN Fail(i, 500, "SynthesisError") /\ UNCHANGED loc
            ELSE /\ loc' = [loc EXCEPT ![i].audio_data = bytes]
                 /\ IF server = "piper-tts" /\ ProbeRaises(bytes)
                      THEN Fail(i, 500, "wave.Error")
                      ELSE IF loc[i].use_cache
                        THEN pc' = [pc EXCEPT ![i] = "save"] /\ UNCHANGED resp
                        ELSE AfterSave(i, bytes)
    /\ UNCHANGED <<server, loaded_models, cache, body, hist>>

\* with open(cache_file, 'wb') as f:   (the file is created, or truncated)
SaveOpen(i, ok) ==
    /\ pc[i] = "save"
    /\ IF ~ok
         THEN Fail(i, 500, "OSError") /\ UNCHANGED <<cache, hist>>
         ELSE /\ cache' = PutFile(cache, loc[i].cache_key, EmptyBytes)
              /\ hist' = [hist EXCEPT ![i].wrote = TRUE]
              /\ pc' = [pc EXCEPT ![i] = "write"]
              /\ UNCHANGED resp
    /\ UNCHANGED <<server, loaded_models, body, loc>>

\* f.write(audio_data) and the close that flushes it, then the rest of the handler
SaveWrite(i, ok) ==
    /\ pc[i] = "write"
    /\ IF ~ok
         THEN Fail(i, 500, "OSError") /\ UNCHANGED cache
         ELSE /\ cache' = PutFile(cache, loc[i].cache_key, loc[i].audio_data)
              /\ AfterSave(i, loc[i].audio_data)
    /\ UNCHANGED <<server, loaded_models, body, loc, hist>>

\* The steps of a request that has been received.
Step(i) ==
    \/ Lookup(i)
    \/ HitRead(i)
    \/ HitProbe(i)
    \/ LoadModelCheck(i)
    \/ PiperVoiceLoad(i)
    \/ SynthBegin(i)
    \/ \E outcome \in BackendOutcomes : SynthEnd(i, outcome)
    \/ \E ok \in BOOLEAN : SaveOpen(i, ok)
    \/ \E ok \in BOOLEAN : SaveWrite(i, ok)

\* Flask serves each request in a thread of its own: any interleaving.
Next ==
    \E i \in ReqIds :
        \/ \E b \in RequestBodies : Receive(i, b)
        \/ Step(i)

Spec == Init /\ [][Next]_vars

\* Every thread that can take a step is eventually scheduled: the handler has no
\* lock, wait or loop, and the threads of app.run are scheduled by the system.
SpecFair == Init /\ [][Next]_vars /\ \A i \in ReqIds : WF_vars(Step(i))

\* One request at a time: a request arrives when no other is being handled.
Quiet(i) == \A j \in ReqIds \ {i} : pc[j] \in {"idle", "done"}

SeqNext ==
    \E i \in ReqIds :
        \/ \E b \in RequestBodies : Quiet(i) /\ Receive(i, b)
        \/ Step(i)

SpecSeq == Init /\ [][SeqNext]_vars

\* The derivation of the cache key alone, over the bodies KeyBodies.
KeyNext ==
    \E i \in ReqIds :
        \/ \E b \in KeyBodies : Receive(i, b)
        \/ Lookup(i)

SpecKey == Init /\ [][KeyNext]_vars

(***************************************************************************)
(* Notions the properties below are stated with.                           *)
(***************************************************************************)
\* Request i has derived its cache key.
KeyDerived(i) == loc[i].cache_key # NoLocals.cache_key

\* A body every field of which is valid: a text, a voice that has a model file (or
\* none), a positive speed (or none).
ValidBody(b) ==
    /\ Truthy(b.text)
    /\ b.model.kind = "absent" \/ (b.model.kind = "str" /\ b.model.s \in ModelAssets)
    /\ b.speed.kind = "absent" \/ (b.speed.kind \in {"int", "real"} /\ b.speed.n > 0)

\* Request i is executing the backend synthesis for a key it will store.
Computing(i) == pc[i] = "synthesizing" /\ loc[i].use_cache

\* Request i has got its voice from load_model.
Resolved(i) == server = "tts-server" /\ loc[i].voice # NoVoice

\* The requests that performed PiperVoice.load for a model.
Loaders(model_name) == {i \in ReqIds : hist[i].loaded /\ loc[i].model_name = model_name}

\* The (text, voice, speed) the handler read from the body.
Tuple(i) == <<loc[i].text, loc[i].model_name, loc[i].speed>>

\* Request j had been answered when request i arrived.
Before(j, i) == j \in hist[i].after

\* Request i was answered with audio it synthesized itself.
Missed(i) == pc[i] = "done" /\ resp[i].status = 200 /\ ~resp[i].cached

(***************************************************************************)
(* C1 (single-flight mutual exclusion): at no time are two requests with   *)
(* use_cache true executing the backend synthesis for the same cache key.  *)
(***************************************************************************)
C1_SingleFlight ==
    \A i, j \in ReqIds :
        (i # j /\ Computing(i) /\ Computing(j)) => loc[i].cache_key # loc[j].cache_key

(***************************************************************************)
(* C2 (single-flight, K concurrent identical requests): when all requests  *)
(* of the run carry the same valid body with use_cache true, all arrived    *)
(* before any was answered, and neither the backend nor the disk failed,    *)
(* then the backend was invoked exactly once, every request got a 200 with  *)
(* the same bytes, and every request that did not compute reports cached.   *)
(***************************************************************************)
C2_OneSynthesisForK ==
    ( /\ \A i \in ReqIds : pc[i] = "done"
      /\ \A i \in ReqIds : body[i] = body[1] /\ UseCache(body[i]) /\ hist[i].after = {}
      /\ \A i \in ReqIds : resp[i].error \notin {"SynthesisError", "OSError"}
      /\ ValidBody(body[1]) )
    => ( /\ Cardinality({i \in ReqIds : hist[i].invoked}) = 1
         /\ \A i \in ReqIds : resp[i].status = 200
         /\ \A i, j \in ReqIds : resp[i].audio = resp[j].audio
         /\ \A i \in ReqIds : ~hist[i].invoked => resp[i].cached )

(***************************************************************************)
(* C3 (at most one construction per voiceId): for every model name         *)
(* PiperVoice.load has been performed by at most one request, and all       *)
(* requests that resolved that model name hold the same voice object.       *)
(***************************************************************************)
C3_OneLoadPerVoice ==
    /\ \A i \in ReqIds : Cardinality(Loaders(loc[i].model_name)) <= 1
    /\ \A i, j \in ReqIds :
         (Resolved(i) /\ Resolved(j) /\ loc[i].model_name = loc[j].model_name)
             => loc[i].voice = loc[j].voice

(***************************************************************************)
(* C4 (model reuse, sequential use): when requests are handled one after   *)
(* another, a request that resolves a model name which an earlier request   *)
(* resolved gets the same voice object and performs no PiperVoice.load, and *)
(* no model name is loaded more than once.                                  *)
(***************************************************************************)
C4_SequentialReuse ==
    /\ \A i, j \in ReqIds :
         (Before(j, i) /\ Resolved(j) /\ Resolved(i) /\ loc[i].model_name = loc[j].model_name)
             => (loc[i].voice = loc[j].voice /\ ~hist[i].loaded)
    /\ \A i \in ReqIds : Cardinality(Loaders(loc[i].model_name)) <= 1

\* Reached: a later request resolved the model an earlier one had loaded.
C4_Witness ==
    \E i, j \in ReqIds :
        /\ Before(j, i) /\ hist[j].loaded /\ Resolved(i)
        /\ loc[i].model_name = loc[j].model_name
        /\ loc[i].voice = loc[j].voice

(***************************************************************************)
(* C5 (idempotence of synthesize): when requests are handled one after     *)
(* another and a request with use_cache true was answered as a miss, a      *)
(* later request with use_cache true and the same (text, voice, speed)      *)
(* never invokes the backend nor writes the cache, and is answered 200 with *)
(* cached true, the same bytes and the same duration.                       *)
(***************************************************************************)
C5_Idempotent ==
    \A i, j \in ReqIds :
        ( /\ Before(j, i) /\ Missed(j) /\ loc[j].use_cache
          /\ loc[i].use_cache /\ Tuple(i) = Tuple(j) )
        => ( /\ ~hist[i].invoked /\ ~hist[i].wrote
             /\ pc[i] = "done" =>
                  ( /\ resp[i].status = 200 /\ resp[i].cached
                    /\ resp[i].audio = resp[j].audio
                    /\ resp[i].duration_sec = resp[j].duration_sec ) )

\* Reached: the repeated request has been answered from the cache.
C5_Witness ==
    \E i, j \in ReqIds :
        /\ Before(j, i) /\ Missed(j) /\ loc[j].use_cache
        /\ loc[i].use_cache /\ Tuple(i) = Tuple(j)
        /\ pc[i] = "done" /\ resp[i].cached /\ resp[i].audio = resp[j].audio
        /\ resp[i].audio.riff

(***************************************************************************)
(* C6 (use_cache false bypasses the cache): a request with use_cache false *)
(* never evaluates the existence check, never takes the hit path and never  *)
(* writes; each of its steps leaves every cache entry as it was; and when   *)
(* it is answered 200 it has invoked the backend and reports cached false.  *)
(***************************************************************************)
C6_NoCacheBypass ==
    [][ \A i \in ReqIds :
          (pc'[i] # "idle" /\ ~UseCache(body'[i])) =>
             /\ (pc'[i] # pc[i] => cache' = cache)
             /\ pc'[i] \notin {"hit_read", "hit_probe", "save", "write"}
             /\ ~hist'[i].looked_up /\ ~hist'[i].wrote
             /\ (pc'[i] = "done" /\ resp'[i].status = 200)
                    => (hist'[i].invoked /\ ~resp'[i].cached) ]_vars

\* Reached: a request with use_cache false was answered with fresh audio although an
\* earlier request had stored an entry under its key.
C6_Witness ==
    \E i, j \in ReqIds :
        /\ Before(j, i) /\ Missed(j) /\ loc[j].use_cache
        /\ ~UseCache(body[i]) /\ Missed(i) /\ hist[i].invoked
        /\ loc[i].cache_key = loc[j].cache_key
        /\ loc[i].cache_key \in DOMAIN cache

(***************************************************************************)
(* C7 (cache-key distinctness): two requests whose (text, voice, speed)    *)
(* differ in a field have different canonical encodings.                    *)
(***************************************************************************)
Encoding(i) == Canonical(server, loc[i].text, loc[i].model_name, loc[i].speed)

C7_DistinctEncodings ==
    \A i, j \in ReqIds :
        (KeyDerived(i) /\ KeyDerived(j) /\ Tuple(i) # Tuple(j)) => Encoding(i) # Encoding(j)

(***************************************************************************)
(* C8 (cache-key determinism): two requests that name the same text, the   *)
(* same voice (omitted, or the default by name) and the same speed (omitted,*)
(* 1.0, or an integer equal to a real) derive the same cache key.           *)
(***************************************************************************)
\* What a body asks for, whatever way it is written.
LogicalTuple(b) ==
    << b.text.s,
       IF b.model.kind = "absent" THEN DefaultModel ELSE b.model.s,
       IF b.speed.kind = "absent" THEN 10
       ELSE IF b.speed.kind = "int" THEN 10 * b.speed.n ELSE b.speed.n >>

C8_KeyDeterminism ==
    \A i, j \in ReqIds :
        (KeyDerived(i) /\ KeyDerived(j) /\ LogicalTuple(body[i]) = LogicalTuple(body[j]))
            => loc[i].cache_key = loc[j].cache_key

\* Reached: the same key from an integer speed and an omitted one, and from an omitted
\* model and the default by name.
C8_Witness ==
    \E i, j \in ReqIds :
        /\ server = "tts-server" /\ KeyDerived(i) /\ KeyDerived(j)
        /\ body[i].speed.kind = "int" /\ body[j].speed.kind = "absent"
        /\ body[i].model.kind = "absent" /\ body[j].model.kind = "str"
        /\ LogicalTuple(body[i]) = LogicalTuple(body[j])
        /\ loc[i].cache_key = loc[j].cache_key

(***************************************************************************)
(* C9 (empty text): a request whose text is empty or missing is answered   *)
(* 400 at once: no cache lookup, no model resolution, no backend call, no   *)
(* cache write.                                                             *)
(***************************************************************************)
NoWork(i) ==
    ~hist[i].looked_up /\ ~hist[i].resolved /\ ~hist[i].loaded /\ ~hist[i].invoked
    /\ ~hist[i].wrote

C9_EmptyTextRejected ==
    \A i \in ReqIds :
        (pc[i] # "idle" /\ TextMissing(body[i]))
            => (pc[i] = "done" /\ resp[i].status = 400 /\ NoWork(i))

(***************************************************************************)
(* C10 (non-positive speed): in the worker that reads the speed, a request *)
(* with a text and a speed that is zero or negative is answered 400 at      *)
(* once: no cache lookup, no model resolution, no backend call.             *)
(***************************************************************************)
NonPositiveSpeed(b) == b.speed.kind \in {"int", "real"} /\ b.speed.n <= 0

C10_NonPositiveSpeedRejected ==
    \A i \in ReqIds :
        ( /\ server = "tts-server" /\ pc[i] # "idle"
          /\ ~TextMissing(body[i]) /\ NonPositiveSpeed(body[i]) )
            => (pc[i] = "done" /\ resp[i].status = 400 /\ NoWork(i))

(***************************************************************************)
(* C11 (model not found): in the worker that reads the model name, a       *)
(* request that names a voice without a model file ends with a 500 error   *)
(* response, never loads a voice, never invokes the backend and never       *)
(* writes a cache entry.                                                    *)
(***************************************************************************)
\* Request i was accepted by tts-server and names a voice that has no model file.
NamesNoAsset(i) ==
    server = "tts-server" /\ loc[i].text # "" /\ ~AssetExists(loc[i].model_name)

C11_ModelNotFound ==
    \A i \in ReqIds :
        NamesNoAsset(i) =>
            /\ ~hist[i].loaded /\ ~hist[i].invoked /\ ~hist[i].wrote
            /\ loc[i].model_name \notin DOMAIN loaded_models
            /\ pc[i] = "done" => resp[i].status = 500

(***************************************************************************)
(* C12 (atomic store, read-your-writes): the bytes a request reads on the  *)
(* hit path, and the bytes a response with cached true carries, are the     *)
(* complete bytes of one finished synthesis: never empty, never partial.    *)
(***************************************************************************)
\* Bytes as one call of the backend returned them.
CompleteBytes(bytes) == bytes.riff /\ bytes = WavBytes(bytes.of, bytes.take)

C12_AtomicStore ==
    \A i \in ReqIds :
        /\ pc[i] = "hit_probe" => CompleteBytes(loc[i].audio_data)
        /\ (pc[i] = "done" /\ resp[i].status = 200 /\ resp[i].cached)
               => CompleteBytes(resp[i].audio)


(***************************************************************************)
(* C13 (immutable entries): a step of any request leaves every cache entry *)
(* that holds complete bytes exactly as it is: no request rewrites or       *)
(* truncates an entry once it has been written.                             *)
(***************************************************************************)
C13_EntriesImmutable ==
    [][\A k \in DOMAIN cache :
           cache[k].riff => (k \in DOMAIN cache' /\ cache'[k] = cache[k])]_vars


(***************************************************************************)
(* C14 (no deletion): no step removes a cache entry; the set of keys that  *)
(* have an entry only grows.                                                *)
(***************************************************************************)
C14_KeysGrow == [][DOMAIN cache \subseteq DOMAIN cache']_vars

\* Two requests have each stored an entry and both entries are there.
C14_Witness ==
    /\ Cardinality(DOMAIN cache) >= 2
    /\ \A i \in ReqIds : pc[i] = "done" /\ hist[i].wrote /\ resp[i].status = 200


(***************************************************************************)
(* C15 (no partial entry on failure): a request with use_cache true whose  *)
(* backend synthesis raised is answered 500 and has written nothing; its    *)
(* key has no entry unless another request wrote one; and a request with    *)
(* the same body that arrives after that answer does not take the hit path  *)
(* unless a third request wrote the key.                                    *)
(***************************************************************************)
\* The backend raised while request i, which uses the cache, was synthesizing.
SynthesisFailed(i) ==
    pc[i] = "done" /\ resp[i].error = "SynthesisError" /\ loc[i].use_cache

\* Some request other than those of `except` opened the cache file of request i's key.
WroteKeyOf(i, except) ==
    \E k \in ReqIds \ except : hist[k].wrote /\ loc[k].cache_key = loc[i].cache_key

\* Request j found its cache file and took the path that returns it.
TookHitPath(j) ==
    \/ pc[j] \in {"hit_read", "hit_probe"}
    \/ pc[j] = "done" /\ KeyDerived(j) /\ ~hist[j].resolved /\ ~hist[j].invoked

C15_FailureLeavesNoEntry ==
    \A i \in ReqIds :
        SynthesisFailed(i) =>
            /\ resp[i].status = 500
            /\ ~hist[i].wrote
            /\ loc[i].cache_key \in DOMAIN cache => WroteKeyOf(i, {i})
            /\ \A j \in ReqIds :
                   (Before(i, j) /\ body[j] = body[i] /\ TookHitPath(j))
                       => WroteKeyOf(i, {i, j})

\* After a failed synthesis the same body was sent again, missed, and was synthesized
\* and stored.
C15_Witness ==
    \E i, j \in ReqIds :
        /\ SynthesisFailed(i) /\ Before(i, j) /\ body[j] = body[i]
        /\ Missed(j) /\ hist[j].wrote /\ loc[j].cache_key \in DOMAIN cache


(***************************************************************************)
(* C16 (no request hangs): under fair scheduling of the request threads,   *)
(* every request that has been received is eventually answered, whatever    *)
(* the other requests do, a failing synthesis for the same key included.    *)
(***************************************************************************)
C16_EveryRequestAnswered ==
    \A i \in ReqIds : (pc[i] # "idle") ~> (pc[i] = "done")

\* A request was answered although a request that overlapped it, for the same key,
\* failed in the backend.
C16_Witness ==
    \E i, j \in ReqIds :
        /\ i # j /\ SynthesisFailed(i) /\ ~Before(i, j)
        /\ loc[j].cache_key = loc[i].cache_key
        /\ pc[j] = "done" /\ resp[j].status = 200


(***************************************************************************)
(* C17 (independence): a request being handled is never blocked by a       *)
(* request being handled for a different cache key or a different voice:    *)
(* whatever step the other is at, its own next step can be taken.           *)
(***************************************************************************)
\* Request i has been received and not yet answered.
InFlight(i) == pc[i] \notin {"idle", "done"}

\* The cache key of the request i is handling.
KeyOf(i) == cache_key(server, loc[i].text, loc[i].model_name, loc[i].speed)

\* Requests i and j are being handled for different keys or different voices.
Unrelated(i, j) ==
    /\ i # j /\ InFlight(i) /\ InFlight(j)
    /\ KeyOf(i) # KeyOf(j) \/ loc[i].model_name # loc[j].model_name

C17_Independent ==
    \A i, j \in ReqIds : Unrelated(i, j) => ENABLED Step(i)

\* One request is in the backend for one voice while another is about to load a
\* different voice for a different key.
C17_Witness ==
    \E i, j \in ReqIds :
        /\ Unrelated(i, j)
        /\ KeyOf(i) # KeyOf(j) /\ loc[i].model_name # loc[j].model_name
        /\ pc[i] = "loading" /\ pc[j] = "synthesizing"


(***************************************************************************)
(* C18 (persist failure is not fatal): a request that holds freshly        *)
(* synthesized bytes and comes to the save is answered 200 with those bytes *)
(* and cached false, whether or not the cache file could be written.        *)
(***************************************************************************)
C18_PersistFailureNotFatal ==
    [][\A i \in ReqIds :
           (pc[i] \in {"save", "write"} /\ pc'[i] = "done")
               => /\ resp'[i].status = 200
                  /\ ~resp'[i].cached
                  /\ resp'[i].audio = loc[i].audio_data]_vars


(***************************************************************************)
(* C19 (an error creates no entry): a request that was answered with an    *)
(* error response has not created or written a cache file.                  *)
(***************************************************************************)
\* Request i was answered with an error response.
EndedInError(i) == pc[i] = "done" /\ resp[i].status # 200

C19_ErrorCreatesNoEntry ==
    \A i \in ReqIds : EndedInError(i) => ~hist[i].wrote


(***************************************************************************)
(* C20 (a hit does no model work): every step of a request on the hit path,*)
(* from the lookup that finds the file to the response with cached true,    *)
(* leaves the table of loaded models and the count health reports as they   *)
(* are, and the request has not resolved a voice, loaded a model or invoked *)
(* the backend.                                                             *)
(***************************************************************************)
\* The step taken is one of request i on the hit path.
HitStep(i) ==
    \/ pc[i] = "lookup" /\ pc'[i] = "hit_read"
    \/ pc[i] = "hit_read" /\ pc'[i] = "hit_probe"
    \/ pc[i] = "hit_probe" /\ pc'[i] = "done"

C20_HitDoesNoModelWork ==
    [][\A i \in ReqIds :
           HitStep(i) =>
               /\ loaded_models' = loaded_models
               /\ health' = health
               /\ ~hist'[i].resolved /\ ~hist'[i].loaded /\ ~hist'[i].invoked
               /\ loc'[i].voice = NoVoice]_vars

\* A request was answered from the cache for a voice that has never been loaded.
C20_Witness ==
    \E i \in ReqIds :
        /\ server = "tts-server"
        /\ pc[i] = "done" /\ resp[i].status = 200 /\ resp[i].cached
        /\ loc[i].model_name \notin DOMAIN loaded_models
        /\ health = 1

====
